---- MODULE Spec2Model ----
(***************************************************************************)
(* Model of ports/rp2/machine_pwm.c: the machine.PWM bindings of the rp2   *)
(* port.  The state is the PWM block's per-slice registers (div, top, cc,  *)
(* csr.en) that the bindings read and write, plus the outcome of the last  *)
(* call.  Each binding function is one action.                             *)
(*                                                                         *)
(* Arithmetic: the C code computes in uint32_t, with a uint64_t product in *)
(* the nanosecond conversions.  TLC's integers are 32-bit signed, so every *)
(* product that can pass 2^31 is computed by MulDiv or MulDivNs, which     *)
(* return floor(a*b/c) without forming a*b.  Inputs are kept in the ranges *)
(* where the C arithmetic does not wrap (16*source_hz < 2^31, freq >= 1,   *)
(* duty_u16 in 0..65535, duty_ns in 0..2^31-1), so floor(a*b/c) is what    *)
(* the C computes.                                                         *)
(***************************************************************************)
EXTENDS Integers, Sequences, FiniteSets, TLC

VARIABLES
    pwm_hw,     \* pwm_hw->slice[s]: [div, top, cc (per channel), en]
    clk_sys,    \* what clock_get_hz(clk_sys) returns
    ret,        \* the last call: its function, object, argument and outcome
    loc         \* position and locals of a call that is run statement by statement

vars == <<pwm_hw, clk_sys, ret, loc>>

----------------------------------------------------------------------------
\* Program constants

TOP_MAX == 65534

U16_MAX == 65535

NS_PER_S == 1000000000

PWM_CHAN_A == 0

PWM_CHAN_B == 1

\* 16.4 fixed point: the divider 1.0
DIV16_ONE == 16

\* 256 * 16: the first div16 that does not fit the divider register
DIV16_LIMIT == 256 * 16

----------------------------------------------------------------------------
\* Bounds of the model

\* Slices modelled, out of the 8 of machine_pwm_obj[]
NumSlices == 2

\* Low target frequencies 1..MaxFreq are all tried by the solver runs
MaxFreq == 32

\* Sample points per period tried by the duty runs
MaxNsSamples == 12

----------------------------------------------------------------------------
\* Inputs

\* System clocks the port runs at (Hz); 16 * clk < 2^31
SysClocks == {125000000, 133000000, 48000000}

Slices == 0 .. (NumSlices - 1)

Channels == {PWM_CHAN_A, PWM_CHAN_B}

\* machine_pwm_obj[]: one object per (slice, channel)
machine_pwm_obj == [slice : Slices, channel : Channels]

----------------------------------------------------------------------------
\* Exact floor(a * b / c) for 0 <= a, b < 2^31 and 0 < c < 2^27, without
\* forming a * b: b is taken three bits at a time, and 8 * r + 7 * (a % c) < 2^31.
\* Returns <<quotient, remainder>>.

RECURSIVE MulDivRem(_, _, _)
MulDivRem(a, b, c) ==
    IF b = 0 THEN <<0, 0>>
    ELSE LET h == MulDivRem(a, b \div 8, c)
             n == 8 * h[2] + (b % 8) * (a % c)
         IN  <<8 * h[1] + (b % 8) * (a \div c) + n \div c, n % c>>

MulDiv(a, b, c) == MulDivRem(a, b, c)[1]

\* The base-1000 digit i of v
Limb(v, i) == (v \div (1000 ^ i)) % 1000

\* Exact floor(n * h / 1000000000) for 0 <= n < 2^31 and 0 <= h < 2^27: the
\* product in base 1000 (p0 .. p5), of which the digits from 1000^3 up are kept
MulDivNs(n, h) ==
    LET p0 == Limb(n, 0) * Limb(h, 0)
        p1 == Limb(n, 0) * Limb(h, 1) + Limb(n, 1) * Limb(h, 0)
        p2 == Limb(n, 0) * Limb(h, 2) + Limb(n, 1) * Limb(h, 1) + Limb(n, 2) * Limb(h, 0)
        p3 == Limb(n, 1) * Limb(h, 2) + Limb(n, 2) * Limb(h, 1) + Limb(n, 3) * Limb(h, 0)
        p4 == Limb(n, 2) * Limb(h, 2) + Limb(n, 3) * Limb(h, 1)
        p5 == Limb(n, 3) * Limb(h, 2)
    IN  p3 + 1000 * p4 + 1000000 * p5
           + ((p2 + ((p1 + (p0 \div 1000)) \div 1000)) \div 1000)

----------------------------------------------------------------------------
\* Register access

\* (cc >> (channel ? PWM_CH0_CC_B_LSB : PWM_CH0_CC_A_LSB)) & 0xffff
cc_of(slice, channel) == pwm_hw[slice].cc[channel]

\* pwm_set_chan_level(slice, channel, level): level is a uint16_t, it is
\* written to the channel's half of cc and the other half is kept
pwm_set_chan_level(hw, slice, channel, level) ==
    [hw EXCEPT ![slice].cc[channel] = level % (U16_MAX + 1)]

\* pwm_set_enabled writing the enable bit of every slice
pwm_set_enabled_AllSlices(hw, slice, enabled) ==
    [s \in DOMAIN hw |-> [hw[s] EXCEPT !.en = enabled]]

\* pwm_set_enabled(slice, enabled)
pwm_set_enabled(hw, slice, enabled) ==
    [hw EXCEPT ![slice].en = enabled]

\* uint32_t slice_hz = 16 * source_hz / pwm_hw->slice[self->slice].div
slice_hz(slice) == (16 * clk_sys) \div pwm_hw[slice].div

NoCall == [op |-> "none", slice |-> 0, channel |-> 0, arg |-> 0, err |-> "none", val |-> 0]

Call(op, self, arg, err, val) ==
    [op |-> op, slice |-> self.slice, channel |-> self.channel,
     arg |-> arg, err |-> err, val |-> val]

----------------------------------------------------------------------------
\* mp_machine_pwm_freq_set: the solver

\* LoopBody with the halving started at 16 instead of 16 * 2
LoopBody_HalveFrom16(d, t) ==
    IF d >= 16 * 5 /\ d % 5 = 0 /\ t * 5 <= TOP_MAX
        THEN [div16_top |-> d \div 5, top |-> t * 5, brk |-> FALSE]
    ELSE IF d >= 16 * 3 /\ d % 3 = 0 /\ t * 3 <= TOP_MAX
        THEN [div16_top |-> d \div 3, top |-> t * 3, brk |-> FALSE]
    ELSE IF d >= 16 /\ t * 2 <= TOP_MAX
        THEN [div16_top |-> d \div 2, top |-> t * 2, brk |-> FALSE]
    ELSE [div16_top |-> d, top |-> t, brk |-> TRUE]

\* LoopBody with the halving done only when div16_top is even
LoopBody_ExactHalving(d, t) ==
    IF d >= 16 * 5 /\ d % 5 = 0 /\ t * 5 <= TOP_MAX
        THEN [div16_top |-> d \div 5, top |-> t * 5, brk |-> FALSE]
    ELSE IF d >= 16 * 3 /\ d % 3 = 0 /\ t * 3 <= TOP_MAX
        THEN [div16_top |-> d \div 3, top |-> t * 3, brk |-> FALSE]
    ELSE IF d >= 16 * 2 /\ d % 2 = 0 /\ t * 2 <= TOP_MAX
        THEN [div16_top |-> d \div 2, top |-> t * 2, brk |-> FALSE]
    ELSE [div16_top |-> d, top |-> t, brk |-> TRUE]

\* LoopBody with the factor 3 moved without the divisibility test
LoopBody_InexactThree(d, t) ==
    IF d >= 16 * 5 /\ d % 5 = 0 /\ t * 5 <= TOP_MAX
        THEN [div16_top |-> d \div 5, top |-> t * 5, brk |-> FALSE]
    ELSE IF d >= 16 * 3 /\ t * 3 <= TOP_MAX
        THEN [div16_top |-> d \div 3, top |-> t * 3, brk |-> FALSE]
    ELSE IF d >= 16 * 2 /\ t * 2 <= TOP_MAX
        THEN [div16_top |-> d \div 2, top |-> t * 2, brk |-> FALSE]
    ELSE [div16_top |-> d, top |-> t, brk |-> TRUE]

\* One pass of the for (;;) body on (div16_top, top); brk is the break
LoopBody(d, t) ==
    IF d >= 16 * 5 /\ d % 5 = 0 /\ t * 5 <= TOP_MAX
        THEN [div16_top |-> d \div 5, top |-> t * 5, brk |-> FALSE]
    ELSE IF d >= 16 * 3 /\ d % 3 = 0 /\ t * 3 <= TOP_MAX
        THEN [div16_top |-> d \div 3, top |-> t * 3, brk |-> FALSE]
    ELSE IF d >= 16 * 2 /\ t * 2 <= TOP_MAX
        THEN [div16_top |-> d \div 2, top |-> t * 2, brk |-> FALSE]
    ELSE [div16_top |-> d, top |-> t, brk |-> TRUE]

\* The whole loop
RECURSIVE Loop(_, _)
Loop(d, t) ==
    LET n == LoopBody(d, t)
    IN  IF n.brk THEN [div16_top |-> d, top |-> t] ELSE Loop(n.div16_top, n.top)

\* FreqError without the upper check
FreqError_NoLowCheck(d) ==
    IF d < DIV16_ONE THEN "freq too large" ELSE "none"

\* The checks after the loop: the error raised, or "none"
FreqError(d) ==
    IF d < DIV16_ONE THEN "freq too large"
    ELSE IF d >= DIV16_LIMIT THEN "freq too small"
    ELSE "none"

\* FreqCommit with the registers written before the checks
FreqCommit_WriteFirst(self, freq, d, t) ==
    /\ ret' = Call("freq_set", self, freq, FreqError(d), 0)
    /\ pwm_hw' = [pwm_hw EXCEPT ![self.slice].div = d, ![self.slice].top = t]

\* The tail of mp_machine_pwm_freq_set: raise, or write div and top
FreqCommit(self, freq, d, t) ==
    IF FreqError(d) # "none"
        THEN /\ ret' = Call("freq_set", self, freq, FreqError(d), 0)
             /\ pwm_hw' = pwm_hw
        ELSE /\ ret' = Call("freq_set", self, freq, "none", 0)
             /\ pwm_hw' = [pwm_hw EXCEPT ![self.slice].div = d, ![self.slice].top = t]

mp_machine_pwm_freq_set(self, freq) ==
    LET r == Loop((16 * clk_sys) \div freq, 1)
    IN  FreqCommit(self, freq, r.div16_top, r.top)

\* mp_machine_pwm_freq_get; top is never 0 (reset value 0xffff, freq_set
\* writes at least 1), so the division is defined
mp_machine_pwm_freq_get(self) ==
    /\ pwm_hw[self.slice].top > 0
    /\ ret' = Call("freq_get", self, 0, "none",
                   ((16 * clk_sys) \div pwm_hw[self.slice].div) \div pwm_hw[self.slice].top)
    /\ pwm_hw' = pwm_hw

\* mp_machine_pwm_deinit
mp_machine_pwm_deinit(self) ==
    /\ pwm_hw' = pwm_set_enabled(pwm_hw, self.slice, FALSE)
    /\ ret' = Call("deinit", self, 0, "none", 0)

----------------------------------------------------------------------------
\* Duty cycle

\* cc * 65535 / (top + 1)
duty_get_u16(slice, channel) ==
    MulDiv(U16_MAX, cc_of(slice, channel), pwm_hw[slice].top + 1)

mp_machine_pwm_duty_get_u16(self) ==
    /\ ret' = Call("duty_get_u16", self, 0, "none", duty_get_u16(self.slice, self.channel))
    /\ pwm_hw' = pwm_hw

\* duty_u16_to_cc scaling by top instead of top + 1
duty_u16_to_cc_NoPlusOne(slice, duty_u16) ==
    MulDiv(pwm_hw[slice].top, duty_u16, U16_MAX)

\* duty_u16_to_cc scaling by top + 2
duty_u16_to_cc_PlusTwo(slice, duty_u16) ==
    MulDiv(pwm_hw[slice].top + 2, duty_u16, U16_MAX)

\* uint32_t cc = duty_u16 * (top + 1) / 65535
duty_u16_to_cc(slice, duty_u16) ==
    MulDiv(pwm_hw[slice].top + 1, duty_u16, U16_MAX)

mp_machine_pwm_duty_set_u16(self, duty_u16) ==
    /\ pwm_hw' = pwm_set_enabled(
                    pwm_set_chan_level(pwm_hw, self.slice, self.channel,
                                       duty_u16_to_cc(self.slice, duty_u16)),
                    self.slice, TRUE)
    /\ ret' = Call("duty_set_u16", self, duty_u16, "none", 0)

\* duty_get_ns dividing by the source clock, the divider forgotten
duty_get_ns_SourceHz(slice, channel) ==
    MulDiv(NS_PER_S, cc_of(slice, channel), clk_sys)

\* (uint64_t)cc * 1000000000ULL / slice_hz
duty_get_ns(slice, channel) ==
    MulDiv(NS_PER_S, cc_of(slice, channel), slice_hz(slice))

mp_machine_pwm_duty_get_ns(self) ==
    /\ ret' = Call("duty_get_ns", self, 0, "none", duty_get_ns(self.slice, self.channel))
    /\ pwm_hw' = pwm_hw

\* uint32_t cc = (uint64_t)duty_ns * slice_hz / 1000000000ULL
duty_ns_to_cc(slice, duty_ns) ==
    MulDivNs(duty_ns, slice_hz(slice))

\* DutyNsError refusing compare 65535 too
DutyNsError_RefuseMax(cc) ==
    IF cc >= U16_MAX THEN "duty larger than period" ELSE "none"

\* if (cc > 65535) raise
DutyNsError(cc) ==
    IF cc > U16_MAX THEN "duty larger than period" ELSE "none"

mp_machine_pwm_duty_set_ns(self, duty_ns) ==
    LET cc == duty_ns_to_cc(self.slice, duty_ns)
    IN  IF DutyNsError(cc) # "none"
            THEN /\ ret' = Call("duty_set_ns", self, duty_ns, DutyNsError(cc), 0)
                 /\ pwm_hw' = pwm_hw
            ELSE /\ pwm_hw' = pwm_set_enabled(
                                 pwm_set_chan_level(pwm_hw, self.slice, self.channel, cc),
                                 self.slice, TRUE)
                 /\ ret' = Call("duty_set_ns", self, duty_ns, "none", 0)

----------------------------------------------------------------------------
\* Calls, by the set of objects and of arguments they are made with

\* The PWM block after reset: divider 1.0, top 0xffff, compare 0, disabled
ResetSlice == [div |-> DIV16_ONE, top |-> U16_MAX, cc |-> [c \in Channels |-> 0], en |-> FALSE]

Idle == [pc |-> "run", self |-> [slice |-> 0, channel |-> PWM_CHAN_A],
         freq |-> 0, div16_top |-> 0, top |-> 0]

\* The two objects of slice 0
Slice0Objs == {o \in machine_pwm_obj : o.slice = 0}

FreqSet(objs, freqs) ==
    \E self \in objs, freq \in freqs :
        mp_machine_pwm_freq_set(self, freq) /\ UNCHANGED <<clk_sys, loc>>

FreqGet(objs) ==
    \E self \in objs :
        mp_machine_pwm_freq_get(self) /\ UNCHANGED <<clk_sys, loc>>

Deinit(objs) ==
    \E self \in objs :
        mp_machine_pwm_deinit(self) /\ UNCHANGED <<clk_sys, loc>>

DutySetU16(objs, duties) ==
    \E self \in objs, duty_u16 \in duties :
        mp_machine_pwm_duty_set_u16(self, duty_u16) /\ UNCHANGED <<clk_sys, loc>>

DutyGetU16(objs) ==
    \E self \in objs :
        mp_machine_pwm_duty_get_u16(self) /\ UNCHANGED <<clk_sys, loc>>

DutySetNs(objs, durations) ==
    \E self \in objs, duty_ns \in durations :
        mp_machine_pwm_duty_set_ns(self, duty_ns) /\ UNCHANGED <<clk_sys, loc>>

DutyGetNs(objs) ==
    \E self \in objs :
        mp_machine_pwm_duty_get_ns(self) /\ UNCHANGED <<clk_sys, loc>>

----------------------------------------------------------------------------
\* Spec: the whole block after reset, any call on any object of any slice.
\* The arguments are few: 1 kHz succeeds, 250 MHz is too high; 2 ms is
\* longer than any period of a 125 MHz clock with divider <= 2.

SysFreqInputs == {1000, 250000000}

SysDutyU16Inputs == {0, U16_MAX}

SysDutyNsInputs == {0, 2000000}

Init ==
    /\ pwm_hw = [s \in Slices |-> ResetSlice]
    /\ clk_sys = 125000000
    /\ ret = NoCall
    /\ loc = Idle

Next ==
    \/ FreqSet(machine_pwm_obj, SysFreqInputs)
    \/ FreqGet(machine_pwm_obj)
    \/ Deinit(machine_pwm_obj)
    \/ DutySetU16(machine_pwm_obj, SysDutyU16Inputs)
    \/ DutyGetU16(machine_pwm_obj)
    \/ DutySetNs(machine_pwm_obj, SysDutyNsInputs)
    \/ DutyGetNs(machine_pwm_obj)

Spec == Init /\ [][Next]_vars

----------------------------------------------------------------------------
\* SpecSlice: slice 0 configured by a successful freq_set, compare values 0,
\* then any call on its two channels.

\* Two targets that succeed (1 kHz gives div16 32, top 62500; 62.5 MHz gives
\* div16 16, top 2), one too low (9 Hz), one too high (250 MHz)
FreqInputs == {1000, 62500000, 9, 250000000}

DutyU16Inputs == {0, 32768, U16_MAX}

\* At 125 MHz and 1 kHz (slice_hz 62.5 MHz): 1000016 ns is the period
\* (compare 62501), 1048560 ns is compare 65535, 1048576 ns is compare 65536
DutyNsInputs == {0, 1000, 1000016, 1048560, 1048576}

\* The registers freq_set(freq) leaves on a slice in reset
Configured(clk, freq) ==
    LET r == Loop((16 * clk) \div freq, 1)
    IN  [ResetSlice EXCEPT !.div = r.div16_top, !.top = r.top]

InitSlice ==
    /\ clk_sys = 125000000
    /\ \E freq \in FreqInputs :
          /\ FreqError(Loop((16 * clk_sys) \div freq, 1).div16_top) = "none"
          /\ pwm_hw = [s \in Slices |->
                          IF s = 0 THEN Configured(clk_sys, freq) ELSE ResetSlice]
          /\ ret = Call("freq_set", [slice |-> 0, channel |-> PWM_CHAN_A], freq, "none", 0)
    /\ loc = Idle

NextSlice ==
    \/ FreqSet(Slice0Objs, FreqInputs)
    \/ FreqGet(Slice0Objs)
    \/ Deinit(Slice0Objs)
    \/ DutySetU16(Slice0Objs, DutyU16Inputs)
    \/ DutyGetU16(Slice0Objs)
    \/ DutySetNs(Slice0Objs, DutyNsInputs)
    \/ DutyGetNs(Slice0Objs)

SpecSlice == InitSlice /\ [][NextSlice]_vars

----------------------------------------------------------------------------
\* SpecSolver: mp_machine_pwm_freq_set run statement by statement on the
\* objects of slice 0, call after call, over a wide set of target frequencies
\* and every system clock.

\* Targets: every low one, round ones, and the ones around the clock itself
WideFreqs(clk) ==
    (1 .. MaxFreq)
    \cup {100, 1000, 1907, 10000, 44100, 1000000}
    \cup {clk \div 16, clk \div 3, clk \div 2, clk - 1, clk, clk + 1, 2 * clk}

InitSolver ==
    /\ pwm_hw = [s \in Slices |-> ResetSlice]
    /\ clk_sys \in SysClocks
    /\ ret = NoCall
    /\ loc = [Idle EXCEPT !.pc = "call"]

\* uint32_t div16_top = 16 * source_hz / freq; uint32_t top = 1;
FreqSetEnter ==
    /\ loc.pc = "call"
    /\ \E self \in Slice0Objs, freq \in WideFreqs(clk_sys) :
          loc' = [pc |-> "loop", self |-> self, freq |-> freq,
                  div16_top |-> (16 * clk_sys) \div freq, top |-> 1]
    /\ UNCHANGED <<pwm_hw, clk_sys, ret>>

\* One pass of for (;;)
FreqSetLoop ==
    /\ loc.pc = "loop"
    /\ LET n == LoopBody(loc.div16_top, loc.top)
       IN  loc' = IF n.brk THEN [loc EXCEPT !.pc = "check"]
                  ELSE [loc EXCEPT !.div16_top = n.div16_top, !.top = n.top]
    /\ UNCHANGED <<pwm_hw, clk_sys, ret>>

\* The checks and the register writes; the locals are kept for inspection
FreqSetExit ==
    /\ loc.pc = "check"
    /\ FreqCommit(loc.self, loc.freq, loc.div16_top, loc.top)
    /\ loc' = [loc EXCEPT !.pc = "call"]
    /\ UNCHANGED clk_sys

NextSolver ==
    \/ FreqSetEnter
    \/ FreqSetLoop
    \/ FreqSetExit

SpecSolver == InitSolver /\ [][NextSolver]_vars

----------------------------------------------------------------------------
\* SpecDuty: on slice 0 after reset, one freq_set, then one duty setter, then
\* one getter, over many configurations and duty values chosen relative to
\* the configuration.

\* floor((top + 1) * 1000000000 / slice_hz): the period in ns
PeriodNs(slice) == MulDiv(NS_PER_S, pwm_hw[slice].top + 1, slice_hz(slice))

\* One counter tick in ns, rounded up
TickNs(slice) == (NS_PER_S + slice_hz(slice) - 1) \div slice_hz(slice)

DutyFreqs(clk) ==
    {8, 10, 11, 15, 16, 20, 27, 50, 100, 440, 1000, 1907, 10000, 44100, 1000000,
     clk \div 16, clk \div 3, clk \div 2, clk, clk + 1}

WideDutyU16 == {0, 1, 2, 32767, 32768, U16_MAX - 1, U16_MAX}

\* Durations: points spread over the period, the ends of the period, the
\* durations around a tick, and the ones around compare 65535 | 65536
WideDutyNs(slice) ==
    LET p == PeriodNs(slice)
        t == TickNs(slice)
        m == MulDiv(NS_PER_S, U16_MAX + 1, slice_hz(slice))
    IN  {(p \div MaxNsSamples) * k + (k % 3) : k \in 0 .. MaxNsSamples}
        \cup {0, 1, p - 1, p, p + 1, t - 1, t, t + 1, 2 * t - 1, 3 * t + 1}
        \cup {m - t, m - 1, m, m + 1, 2 * m}

InitDuty ==
    /\ pwm_hw = [s \in Slices |-> ResetSlice]
    /\ clk_sys \in SysClocks
    /\ ret = NoCall
    /\ loc = [Idle EXCEPT !.pc = "cfg"]

DutyConfigure ==
    /\ loc.pc = "cfg"
    /\ \E self \in Slice0Objs, freq \in DutyFreqs(clk_sys) :
          mp_machine_pwm_freq_set(self, freq)
    /\ loc' = [loc EXCEPT !.pc = "set"]
    /\ UNCHANGED clk_sys

DutyApplyU16 ==
    /\ loc.pc = "set"
    /\ \E self \in Slice0Objs, duty_u16 \in WideDutyU16 :
          mp_machine_pwm_duty_set_u16(self, duty_u16)
    /\ loc' = [loc EXCEPT !.pc = "get"]
    /\ UNCHANGED clk_sys

DutyApplyNs ==
    /\ loc.pc = "set"
    /\ \E self \in Slice0Objs, duty_ns \in WideDutyNs(0) :
          mp_machine_pwm_duty_set_ns(self, duty_ns)
    /\ loc' = [loc EXCEPT !.pc = "get"]
    /\ UNCHANGED clk_sys

DutyReadU16 ==
    /\ loc.pc = "get"
    /\ \E self \in Slice0Objs : mp_machine_pwm_duty_get_u16(self)
    /\ loc' = [loc EXCEPT !.pc = "done"]
    /\ UNCHANGED clk_sys

DutyReadNs ==
    /\ loc.pc = "get"
    /\ \E self \in Slice0Objs : mp_machine_pwm_duty_get_ns(self)
    /\ loc' = [loc EXCEPT !.pc = "done"]
    /\ UNCHANGED clk_sys

FreqRead ==
    /\ loc.pc = "get"
    /\ \E self \in Slice0Objs : mp_machine_pwm_freq_get(self)
    /\ loc' = [loc EXCEPT !.pc = "done"]
    /\ UNCHANGED clk_sys

NextDuty ==
    \/ DutyConfigure
    \/ DutyApplyU16
    \/ DutyApplyNs
    \/ DutyReadU16
    \/ DutyReadNs
    \/ FreqRead

SpecDuty == InitDuty /\ [][NextDuty]_vars

----------------------------------------------------------------------------
\* Properties of the solver (SpecSolver)

\* floor(16 * sourceHz / targetHz)
Div16Top(freq) == (16 * clk_sys) \div freq

TopInRange(s) == pwm_hw[s].top >= 1 /\ pwm_hw[s].top <= TOP_MAX

DivInRange(s) == pwm_hw[s].div >= DIV16_ONE /\ pwm_hw[s].div <= DIV16_LIMIT - 1

\* The slice's div and top are not the reset pair: freq_set, the only writer,
\* has written them
FreqWritten(s) ==
    pwm_hw[s].div # ResetSlice.div \/ pwm_hw[s].top # ResetSlice.top

\* A call of freq_set has returned, and ret is its outcome
FreqSetReturned == loc.pc = "call" /\ ret.op = "freq_set"

\* C1: after any sequence of setFrequency calls, successful or not, every
\* slice whose registers were written by setFrequency holds top in 1..65534
\* and div16 in 16..4095, and so does the slice of a call that just succeeded.
C1_CommittedInRange ==
    /\ \A s \in Slices : FreqWritten(s) => TopInRange(s) /\ DivInRange(s)
    /\ (FreqSetReturned /\ ret.err = "none") =>
          FreqWritten(ret.slice) /\ TopInRange(ret.slice) /\ DivInRange(ret.slice)

\* C1's case: a call succeeded after the loop grew top and left a divider above 1.0
C1_Witness ==
    /\ FreqSetReturned /\ ret.err = "none"
    /\ pwm_hw[ret.slice].top > 32768
    /\ pwm_hw[ret.slice].div > DIV16_ONE

\* C2 as claimed: div16_top * top is the same after every pass of the loop,
\* so a successful setFrequency commits div16 * top = floor(16 * sourceHz / targetHz).
C2_ProductExact ==
    /\ loc.pc \in {"loop", "check"} => loc.div16_top * loc.top = Div16Top(loc.freq)
    /\ (FreqSetReturned /\ ret.err = "none") =>
          pwm_hw[ret.slice].div * pwm_hw[ret.slice].top = Div16Top(ret.arg)

\* The factor a pass of the loop has moved
MovedFactor == loc'.top \div loc.top

\* C2 as amended: every pass moves one factor f of 5, 3 or 2 into top and
\* leaves floor(div16_top / f); 5 and 3 are moved only when they divide
\* div16_top, 2 also when it does not.  So div16_top is always
\* floor(floor(16 * sourceHz / targetHz) / top), and that is what a successful
\* setFrequency commits.
C2_ProductFloor ==
    [][/\ (loc.pc = "loop" /\ loc'.pc = "loop") =>
             /\ MovedFactor \in {5, 3, 2}
             /\ loc'.top = MovedFactor * loc.top
             /\ loc'.div16_top = loc.div16_top \div MovedFactor
             /\ (MovedFactor \in {5, 3}) => loc.div16_top % MovedFactor = 0
       /\ (loc'.pc \in {"loop", "check"}) =>
             loc'.div16_top = Div16Top(loc'.freq) \div loc'.top
       /\ (loc.pc = "check" /\ ret'.err = "none") =>
             /\ pwm_hw'[ret'.slice].top = loc.top
             /\ pwm_hw'[ret'.slice].div = Div16Top(ret'.arg) \div loc.top
      ]_vars

\* C2's case: a call succeeded with a product below floor(16 * sourceHz / targetHz)
C2_Witness ==
    /\ FreqSetReturned /\ ret.err = "none"
    /\ pwm_hw[ret.slice].div * pwm_hw[ret.slice].top < Div16Top(ret.arg)

\* C4: setFrequency raises "freq too large" exactly when targetHz > sourceHz,
\* and the loop never takes a div16_top that started at 16 or more below 16.
C4_TooHighIffAboveSource ==
    /\ FreqSetReturned => (ret.err = "freq too large" <=> ret.arg > clk_sys)
    /\ (loc.pc \in {"loop", "check"} /\ Div16Top(loc.freq) >= DIV16_ONE) =>
          loc.div16_top >= DIV16_ONE

\* C4's case: the first target above the source clock is refused
C4_Witness ==
    FreqSetReturned /\ ret.err = "freq too large" /\ ret.arg = clk_sys + 1

\* C5 as claimed: "freq too small" only when floor(16 * sourceHz / targetHz)
\* exceeds 4095 * 65534, and success for every target from that floor up to sourceHz.
C5_TooLowOnlyBelowFloor ==
    FreqSetReturned =>
        /\ ret.err = "freq too small" =>
              Div16Top(ret.arg) > (DIV16_LIMIT - 1) * TOP_MAX
        /\ (Div16Top(ret.arg) <= (DIV16_LIMIT - 1) * TOP_MAX /\ ret.arg <= clk_sys) =>
              ret.err = "none"

\* The least top at which the loop can stop doubling: 2 * top > TOP_MAX
TopStall == (TOP_MAX \div 2) + 1

\* C5 as amended: "freq too small" only when floor(16 * sourceHz / targetHz)
\* is at least 4096 * 32768 (the loop may stop with any top from 32768 up),
\* always when it is at least 4096 * 65534, and success for every target up
\* to sourceHz whose floor(16 * sourceHz / targetHz) is below 4096 * 32768.
C5_TooLowFromStall ==
    FreqSetReturned =>
        /\ ret.err = "freq too small" => Div16Top(ret.arg) >= DIV16_LIMIT * TopStall
        /\ Div16Top(ret.arg) >= DIV16_LIMIT * TOP_MAX => ret.err = "freq too small"
        /\ (Div16Top(ret.arg) < DIV16_LIMIT * TopStall /\ ret.arg <= clk_sys) =>
              ret.err = "none"

\* C5's case: a target refused as too low though its floor(16 * sourceHz /
\* targetHz) is within 4095 * 65534
C5_Witness ==
    /\ FreqSetReturned /\ ret.err = "freq too small"
    /\ Div16Top(ret.arg) <= (DIV16_LIMIT - 1) * TOP_MAX

----------------------------------------------------------------------------
\* Properties of a configured slice under any calls (SpecSlice)

\* C3: when setFrequency raises "freq too large" or "freq too small", or
\* setDutyNanoseconds raises "duty larger than period", every register of
\* every slice (div, top, both compare values, enabled) is what it was
\* before the call.
C3_NoPartialApplication ==
    [][ret'.err # "none" => pwm_hw' = pwm_hw]_vars

\* C3's case: setDutyNanoseconds has raised on an enabled slice whose
\* channel holds a compare value
C3_Witness ==
    /\ ret.op = "duty_set_ns" /\ ret.err = "duty larger than period"
    /\ pwm_hw[ret.slice].en
    /\ cc_of(ret.slice, ret.channel) > 0

\* C9 as claimed: from a slice configured by setFrequency with both compare
\* values 0, every compare value stays at most top + 1 and getDutyFraction
\* stays within 0..65535, whatever calls are made on the two channels.
C9_CompareWithinTop ==
    \A s \in Slices, c \in Channels :
        /\ cc_of(s, c) <= pwm_hw[s].top + 1
        /\ duty_get_u16(s, c) <= U16_MAX

\* C9 as amended: every compare value stays within 0..65535, and is at most
\* top + 1 right after setDutyFraction on its channel; getDutyFraction is
\* within 0..65535 exactly when compare <= top + 1, which setDutyNanoseconds
\* (any compare up to 65535) and setFrequency (compare kept, top lowered)
\* do not preserve.
C9_CompareBounded ==
    /\ \A s \in Slices, c \in Channels :
          /\ cc_of(s, c) >= 0 /\ cc_of(s, c) <= U16_MAX
          /\ duty_get_u16(s, c) <= U16_MAX <=> cc_of(s, c) <= pwm_hw[s].top + 1
    /\ ret.op = "duty_set_u16" =>
          cc_of(ret.slice, ret.channel) <= pwm_hw[ret.slice].top + 1

\* C9's case: a compare value above top + 1, read back as more than 65535
C9_Witness ==
    \E c \in Channels :
        /\ TopInRange(0)
        /\ cc_of(0, c) > pwm_hw[0].top + 1
        /\ duty_get_u16(0, c) > U16_MAX

----------------------------------------------------------------------------
\* Properties of the whole block (Spec)

DutySetters == {"duty_set_u16", "duty_set_ns"}

\* C10: the enabled flag is per slice.  Every step leaves a slice enabled if
\* the call was a successful duty setter on either of its channels, disabled
\* if it was deinit on either of its channels, and as it was otherwise
\* (setFrequency, the getters, a failed setter, any call on another slice);
\* a slice is disabled until its first duty setter.
C10_EnabledFollowsLastOp ==
    /\ \A s \in Slices : ~pwm_hw[s].en
    /\ [][\A s \in Slices :
            pwm_hw'[s].en =
               IF ret'.slice = s /\ ret'.op \in DutySetters /\ ret'.err = "none" THEN TRUE
               ELSE IF ret'.slice = s /\ ret'.op = "deinit" THEN FALSE
               ELSE pwm_hw[s].en
         ]_vars

\* C10's case: deinit on channel B has disabled a slice whose channel A was
\* given a duty, while another slice stays enabled
C10_Witness ==
    /\ ret.op = "deinit" /\ ret.channel = PWM_CHAN_B
    /\ ~pwm_hw[ret.slice].en
    /\ cc_of(ret.slice, PWM_CHAN_A) > 0
    /\ \E s \in Slices : s # ret.slice /\ pwm_hw[s].en

----------------------------------------------------------------------------
\* Properties of the duty conversions (SpecDuty)

\* sliceHz = floor(16 * sourceHz / div16)
SliceHzOf(s) == (16 * clk_sys) \div pwm_hw[s].div

\* floor(ns * sliceHz / 1000000000) for the slice and duration of the last call
CompareOfCall == MulDivNs(ret.arg, SliceHzOf(ret.slice))

\* C6: setDutyNanoseconds(ns) raises "duty larger than period" exactly when
\* floor(ns * sliceHz / 1000000000) > 65535; otherwise it succeeds, the
\* calling channel's compare is that value (65535 included), the other
\* channel's compare is untouched (these runs make one setter call, so it is
\* still the reset value) and the slice is enabled.
C6_DutyNsCompare ==
    ret.op = "duty_set_ns" =>
        /\ ret.err = "duty larger than period" <=> CompareOfCall > U16_MAX
        /\ CompareOfCall <= U16_MAX =>
              /\ ret.err = "none"
              /\ cc_of(ret.slice, ret.channel) = CompareOfCall
              /\ cc_of(ret.slice, 1 - ret.channel) = ResetSlice.cc[1 - ret.channel]
              /\ pwm_hw[ret.slice].en

\* C6's case: a duration accepted with compare exactly 65535
C6_Witness ==
    /\ ret.op = "duty_set_ns" /\ ret.err = "none"
    /\ CompareOfCall = U16_MAX
    /\ cc_of(ret.slice, ret.channel) = U16_MAX

\* C7: with top in 1..65534, right after setDutyFraction(65535) the channel's
\* getDutyFraction is 65535, and right after setDutyFraction(0) it is 0.
C7_FullAndZeroRoundTrip ==
    (ret.op = "duty_set_u16" /\ TopInRange(ret.slice) /\ ret.arg \in {0, U16_MAX}) =>
        duty_get_u16(ret.slice, ret.channel) = ret.arg

\* C7's case: full duty set on a configured slice
C7_Witness ==
    /\ ret.op = "duty_set_u16" /\ ret.arg = U16_MAX
    /\ TopInRange(ret.slice) /\ pwm_hw[ret.slice].top < 40000
    /\ cc_of(ret.slice, ret.channel) = pwm_hw[ret.slice].top + 1

\* periodNs = floor((top + 1) * 1000000000 / sliceHz)
PeriodNsOf(s) == MulDiv(NS_PER_S, pwm_hw[s].top + 1, SliceHzOf(s))

\* One counter tick, 1000000000 / sliceHz ns, rounded up
TickNsOf(s) == (NS_PER_S + SliceHzOf(s) - 1) \div SliceHzOf(s)

\* C8: with a valid (div16, top), setDutyNanoseconds(n) for n in
\* 0..periodNs succeeds, and the channel's getDutyNanoseconds is then some
\* r <= n with n - r at most one counter tick.
C8_DutyNsRoundTrip ==
    (/\ ret.op = "duty_set_ns"
     /\ TopInRange(ret.slice) /\ DivInRange(ret.slice)
     /\ ret.arg >= 0 /\ ret.arg <= PeriodNsOf(ret.slice)) =>
        /\ ret.err = "none"
        /\ duty_get_ns(ret.slice, ret.channel) <= ret.arg
        /\ ret.arg - duty_get_ns(ret.slice, ret.channel) <= TickNsOf(ret.slice)

\* C8's case: the whole period set on a slice with a divider above 1.0, and
\* read back a little shorter
C8_Witness ==
    /\ ret.op = "duty_set_ns" /\ ret.err = "none"
    /\ TopInRange(ret.slice) /\ DivInRange(ret.slice)
    /\ pwm_hw[ret.slice].div > DIV16_ONE
    /\ ret.arg = PeriodNsOf(ret.slice)
    /\ duty_get_ns(ret.slice, ret.channel) < ret.arg

====
